---------------------------- MODULE Spec2Model ----------------------------
(***************************************************************************)
(* UrbanDeliveryOptimizer (src/delivery_optimization.py): the distance     *)
(* matrix of a depot and its orders, the route cost, the simulated         *)
(* annealing search and the dynamic insertion of an order, driven by a     *)
(* client that follows the call protocol of the two callers of the class   *)
(* (the script's main block and the dashboard src/app.py): construct,      *)
(* precalculate_distances, then simulated_annealing and add_dynamic_order  *)
(* in any order.  A second specification, FlowSpec, runs the two callers   *)
(* themselves: the three button handlers of the dashboard over its session *)
(* state, and the main block of the script.                                *)
(*                                                                         *)
(* Conventions.  Python's None is the empty tuple None and a present       *)
(* value x is Some(x).  Python lists are sequences: the Python position p  *)
(* of a list is position p + 1 here; the VALUES kept in a route are the    *)
(* Python target indices themselves (0 is the depot).  A cost is an exact  *)
(* two-digit number in base Unreachable (1e9), [hi, lo] standing for       *)
(* hi * 1e9 + lo, because a sum of several sentinels does not fit a        *)
(* 32-bit integer; the floats of the source are exact on these integers.   *)
(* A temperature is an exact fraction <<numerator, denominator>>.          *)
(***************************************************************************)
EXTENDS Integers, Sequences, FiniteSets

\* ------------------------------------------------------------- bounds
\* Size of the node pool self.nodes of the road graph.
NumNodes == 4
\* Largest num_orders given to the constructor.
MaxOrders == 1
\* Largest max_iter given to simulated_annealing.
MaxIter == 2
\* Road graphs 0..MaxGraph are tried.
MaxGraph == 1
\* num_orders of the callers (10 in the script and by default on the
\* dashboard's slider), scaled to the node pool.
FlowOrders == 2

\* ---------------------------------------------------- program constants
\* The unreachable sentinel 1e9.
Unreachable == 1000000000
\* math.exp(-x) is 0.0 for every x above this (the smallest double is
\* about exp(-745.13)), so random.random() < 0.0 never accepts.
ExpUnderflow == 745

None == << >>
Some(x) == << x >>
Get(o) == o[1]

\* self.nodes = list(self.G.nodes())
nodes == 1 .. NumNodes

\* Schedule parameters the client passes: initial_temp, cooling_rate.
InitialTemps == { <<1, 2>>, <<1, 1>>, <<2, 1>> }
CoolingRates == { <<1, 2>> }
\* random.uniform(1.0, 1.2): the two ends of the interval.
TrafficFactors == { <<1, 1>>, <<6, 5>> }
\* The fixed multiplier 1.2 of add_dynamic_order.
DynamicFactor == <<6, 5>>

VARIABLES
  G,             \* self.G: which road graph was loaded
  depot,         \* self.depot
  targets,       \* self.targets
  orders,        \* self.orders
  num_targets,   \* self.num_targets
  dist_matrix,   \* self.dist_matrix
  phase,         \* "constructed" | "ready" (precalculate_distances returned)
  new_idx,       \* what the last add_dynamic_order returned
  pc,            \* "idle" | "loop" | "returned" | "raised"
  initial_route, \* the caller's initial_route argument
  cooling_rate,
  max_iter,
  current_route,
  current_cost,
  best_route,
  best_cost,
  temp,
  costs_history,
  i,             \* iterations of the for loop completed
  start_route,   \* current_route as it was when the loop was entered
  start_temp,    \* initial_temp of the call
  sa_result,     \* the tuple simulated_annealing returned, not yet destructured
  error,         \* the exception being raised, "None" if none
  caller,        \* "client" | "app" (src/app.py) | "main" (the script)
  stage,         \* where the caller is, see FlowSpec
  event,         \* the event being handled, or handled last
  ss_optimizer,  \* st.session_state.optimizer; optimizer of the script
  ss_route,      \* st.session_state.route; best_route, dyn_route
  ss_cost,       \* st.session_state.cost; cost
  ss_history     \* st.session_state.history; history

objvars == << G, depot, targets, orders, num_targets, dist_matrix, phase, new_idx >>
savars == << pc, initial_route, cooling_rate, max_iter, current_route,
             current_cost, best_route, best_cost, temp, costs_history, i,
             start_route, start_temp, sa_result >>
callervars == << caller, stage, event, ss_optimizer, ss_route, ss_cost,
                ss_history >>
vars == << objvars, savars, error, callervars >>

\* ------------------------------------------------------- the road graph
\* nx.shortest_path_length(self.G, u, v, weight='length') raises
\* NetworkXNoPath: graph 0 is strongly connected (what the constructor's
\* filter to the largest strongly connected component leaves); the others
\* have one-way and two-way gaps, for an oracle that can fail.
NoPath(g, u, v) ==
  /\ g > 0
  /\ u # v
  /\ \/ (u < v /\ (u + v + g) % 3 = 1)
     \/ (u - v = 3 \/ v - u = 3)

\* The length it returns otherwise, in metres.
shortest_path_length(g, u, v) ==
  IF u = v THEN 0 ELSE 5 * (1 + ((2 * u + v + g) % 3))

\* length * factor for a factor <<n, d>>; exact, the lengths being
\* multiples of 5.
Times(length, f) == (length * f[1]) \div f[2]

\* ------------------------------------------------------------- costs
ZeroCost == [hi |-> 0, lo |-> 0]

\* cost += x, for a matrix entry x in 0 .. Unreachable
CostAdd(c, x) ==
  LET s == c.lo + x
  IN  IF s >= Unreachable
        THEN [hi |-> c.hi + 1, lo |-> s - Unreachable]
        ELSE [hi |-> c.hi, lo |-> s]

\* a < b
CostLess(a, b) == a.hi < b.hi \/ (a.hi = b.hi /\ a.lo < b.lo)
\* b - a > k, for a small k >= 0
CostDiffExceeds(a, b, k) ==
  \/ b.hi > a.hi + 1
  \/ (b.hi = a.hi + 1 /\ Unreachable + b.lo - a.lo > k)
  \/ (b.hi = a.hi /\ b.lo - a.lo > k)

\* ----------------------------------------------------- sequences helpers
\* The injective sequences over S, of every length.
RECURSIVE InjectiveSeqs(_)
InjectiveSeqs(S) ==
  { << >> } \cup UNION { { << x >> \o s : s \in InjectiveSeqs(S \ {x}) } : x \in S }

\* The orderings of all of S.
Permutations(S) == { s \in InjectiveSeqs(S) : Len(s) = Cardinality(S) }

Range(s) == { s[k] : k \in DOMAIN s }

\* np.zeros((n, n))
Zeros(n) == [a \in 0 .. n - 1 |-> [b \in 0 .. n - 1 |-> 0]]

\* ------------------------------------------------ UrbanDeliveryOptimizer
\* Python index a of self.targets
Target(tg, a) == tg[a + 1]

\* __init__: the depot, num_orders distinct orders other than the depot,
\* targets = [depot] + orders, a zero matrix.  (With fewer than
\* num_orders + 1 nodes it raises ValueError and there is no object.)
Constructed(g, d, ords) ==
  /\ G = g
  /\ depot = d
  /\ orders = ords
  /\ targets = << d >> \o ords
  /\ num_targets = Len(ords) + 1
  /\ dist_matrix = Zeros(Len(ords) + 1)
  /\ phase = "constructed"
  /\ new_idx = None

\* The locals of simulated_annealing when no call is in progress.
NoCall ==
  /\ pc = "idle"
  /\ initial_route = None
  /\ cooling_rate = <<1, 1>>
  /\ max_iter = 0
  /\ current_route = << >>
  /\ current_cost = ZeroCost
  /\ best_route = << >>
  /\ best_cost = ZeroCost
  /\ temp = <<1, 1>>
  /\ costs_history = << >>
  /\ i = 0
  /\ start_route = << >>
  /\ start_temp = <<1, 1>>
  /\ sa_result = None

\* The generic client of Spec keeps no session.
NoSession ==
  /\ event = "none"
  /\ ss_optimizer = None
  /\ ss_route = None
  /\ ss_cost = None
  /\ ss_history = None

Init ==
  /\ caller = "client"
  /\ stage = "client"
  /\ NoSession
  /\ \E g \in 0 .. MaxGraph, num_orders \in 0 .. MaxOrders, d \in nodes :
       /\ NumNodes >= num_orders + 1
       /\ \E ords \in InjectiveSeqs(nodes \ {d}) :
            /\ Len(ords) = num_orders
            /\ Constructed(g, d, ords)
  /\ NoCall
  /\ error = "None"

\* The cells precalculate_distances writes.
OffDiagonal(n) == { c \in (0 .. n - 1) \X (0 .. n - 1) : c[1] # c[2] }

\* Mutant: the handler of NetworkXNoPath writes nothing.
BulkEntry_Unwritten(g, tg, a, b, f) ==
  IF NoPath(g, Target(tg, a), Target(tg, b))
    THEN 0
    ELSE Times(shortest_path_length(g, Target(tg, a), Target(tg, b)), f)

\* One cell of precalculate_distances, given the traffic factor drawn.
BulkEntry(g, tg, a, b, f) ==
  IF NoPath(g, Target(tg, a), Target(tg, b))
    THEN Unreachable
    ELSE Times(shortest_path_length(g, Target(tg, a), Target(tg, b)), f)

precalculate_distances ==
  /\ phase = "constructed"
  /\ pc = "idle"
  /\ \E F \in [OffDiagonal(num_targets) -> TrafficFactors] :
       dist_matrix' =
         [a \in 0 .. num_targets - 1 |->
           [b \in 0 .. num_targets - 1 |->
             IF a # b THEN BulkEntry(G, targets, a, b, F[<<a, b>>])
                      ELSE dist_matrix[a][b]]]
  /\ phase' = "ready"
  /\ UNCHANGED << G, depot, targets, orders, num_targets, new_idx, savars,
                  error >>

\* Mutant: the filter of the constructor (n != self.depot) in its place.
available_nodes_NotDepot(tg) == { n \in nodes : n # tg[1] }

\* available_nodes = [n for n in self.nodes if n not in self.targets]
available_nodes(tg) == { n \in nodes : n \notin Range(tg) }

\* Mutant: the old block copied transposed.
CopiedEntry_Transposed(M, a, b) == M[b][a]

\* new_matrix[:old_size, :old_size] = self.dist_matrix
CopiedEntry(M, a, b) == M[a][b]

\* The try block of add_dynamic_order for the existing index k: both
\* queries are made before either entry is written, and the handler of any
\* exception writes the sentinel into both entries.
PairRaises(g, tg, k, new) ==
  \/ NoPath(g, Target(tg, k), Target(tg, new))
  \/ NoPath(g, Target(tg, new), Target(tg, k))

\* new_matrix[a][b] for a cell of the new row or column (a # b).
NewEntry(g, tg, a, b, new) ==
  LET k == IF a = new THEN b ELSE a
  IN  IF PairRaises(g, tg, k, new)
        THEN Unreachable
        ELSE Times(shortest_path_length(g, Target(tg, a), Target(tg, b)),
                   DynamicFactor)

\* The matrix add_dynamic_order builds: tg is the target list with the new
\* node appended, old_size the size before.
ExtendedMatrix(M, g, tg, old_size) ==
  [a \in 0 .. old_size |->
    [b \in 0 .. old_size |->
      IF a < old_size /\ b < old_size THEN CopiedEntry(M, a, b)
      ELSE IF a = b THEN 0
      ELSE NewEntry(g, tg, a, b, old_size)]]

\* Mutant: the new node put in front of the list.
WithTarget_InFront(tg, new_node) == << new_node >> \o tg

\* self.targets.append(new_node)
WithTarget(tg, new_node) == Append(tg, new_node)

\* Mutant: the size after the increment returned.
ReturnedIndex_NewSize(old_size) == old_size + 1

\* new_idx = old_size ... return new_idx
ReturnedIndex(old_size) == old_size

add_dynamic_order ==
  /\ phase = "ready"
  /\ pc = "idle"
  /\ UNCHANGED error
  /\ IF available_nodes(targets) = {}
       THEN /\ new_idx' = None
            /\ UNCHANGED << G, depot, targets, orders, num_targets,
                            dist_matrix, phase, savars >>
       ELSE \E new_node \in available_nodes(targets) :
              /\ orders' = Append(orders, new_node)
              /\ targets' = WithTarget(targets, new_node)
              /\ num_targets' = num_targets + 1
              /\ dist_matrix' = ExtendedMatrix(dist_matrix, G, targets',
                                               num_targets)
              /\ new_idx' = Some(ReturnedIndex(num_targets))
              /\ UNCHANGED << G, depot, phase, savars >>

\* ---------------------------------------------------- total_route_cost
\* Mutant: every leg read against the direction of travel.
RECURSIVE LegsCost_Reversed(_, _, _)
LegsCost_Reversed(M, route, k) ==
  IF k = 0
    THEN CostAdd(ZeroCost, M[route[1]][0])
    ELSE CostAdd(LegsCost_Reversed(M, route, k - 1), M[route[k + 1]][route[k]])

\* The cost after the leg from the depot and the first k legs between
\* consecutive points of the route.
RECURSIVE LegsCost(_, _, _)
LegsCost(M, route, k) ==
  IF k = 0
    THEN CostAdd(ZeroCost, M[0][route[1]])
    ELSE CostAdd(LegsCost(M, route, k - 1), M[route[k]][route[k + 1]])

\* total_route_cost of a non-empty route (on an empty one route_indices[0]
\* raises IndexError).
total_route_cost(M, route) ==
  CostAdd(LegsCost(M, route, Len(route) - 1), M[route[Len(route)]][0])

\* --------------------------------------------------- simulated_annealing
\* The initial_route arguments tried: None, or a list of distinct order
\* indices of any length.
Seeds(n) == { None } \cup { Some(s) : s \in InjectiveSeqs(1 .. n - 1) }

\* current_route after lines 95-99: a shuffle of range(1, num_targets), or
\* a copy of initial_route.
StartRoutes(seed, n) ==
  IF seed = None THEN Permutations(1 .. n - 1) ELSE { Get(seed) }

\* Mutant: one assignment instead of the exchange.
Swap_Overwrite(route, idx1, idx2) == [route EXCEPT ![idx1] = route[idx2]]

\* new_route[idx1], new_route[idx2] = new_route[idx2], new_route[idx1]
Swap(route, idx1, idx2) ==
  [route EXCEPT ![idx1] = route[idx2], ![idx2] = route[idx1]]

\* The outcomes of random.random() < acceptance_prob: always when
\* delta <= 0 (the probability is 1.0), never when exp(-delta / temp)
\* underflows to 0.0, either otherwise.
AcceptChoices(cur_cost, new_cost, t) ==
  IF ~CostLess(cur_cost, new_cost) THEN { TRUE }
  ELSE IF CostDiffExceeds(cur_cost, new_cost, (ExpUnderflow * t[1]) \div t[2])
    THEN { FALSE }
  ELSE { TRUE, FALSE }

\* Mutant: the best route is never replaced.
ImprovesBest_Never(cur_cost, b_cost) == FALSE

\* Mutant: the comparison turned round.
ImprovesBest_Inverted(cur_cost, b_cost) == CostLess(b_cost, cur_cost)

\* if current_cost < best_cost
ImprovesBest(cur_cost, b_cost) == CostLess(cur_cost, b_cost)

\* Mutant: the current cost recorded.
Recorded_Current(history, cur_cost, b_cost) == Append(history, cur_cost)

\* costs_history.append(best_cost)
Recorded(history, cur_cost, b_cost) == Append(history, b_cost)

\* Mutant: no copies are taken, the search works on the caller's list.
CallersList_Aliased(seed, route) == IF seed = None THEN None ELSE Some(route)

\* The caller's initial_route after a pass that left the current route as
\* route: current_route = initial_route[:] and new_route = current_route[:]
\* are copies, so the swaps never reach the caller's list.
CallersList(seed, route) == seed

\* temp *= cooling_rate
Cooled(t, cr) == << t[1] * cr[1], t[2] * cr[2] >>

\* temp < 1
BelowOne(t) == t[1] < t[2]

\* Mutant: the loop without its break.
LoopExits_CapOnly(n, mi, t) == n >= mi

\* The for loop is left: range(max_iter) is used up after n passes, or
\* the pass just made ended in "if temp < 1: break".
LoopExits(n, mi, t) == n >= mi \/ (n > 0 /\ BelowOne(t))

\* return best_route, best_cost, costs_history, elapsed_time
Returned(b_route, b_cost, history) ==
  << b_route, b_cost, history, "elapsed_time" >>

\* The exceptions of the model, with Python's messages.
IndexError == "IndexError: list index out of range"
SampleError == "ValueError: Sample larger than population or is negative"
UnpackError == "ValueError: too many values to unpack"

\* An exception leaves simulated_annealing: its locals are gone, the
\* caller still holds the arguments of the call.
Raise(exc) ==
  /\ error' = exc
  /\ pc' = "raised"
  /\ current_route' = << >>
  /\ current_cost' = ZeroCost
  /\ best_route' = << >>
  /\ best_cost' = ZeroCost
  /\ temp' = <<1, 1>>
  /\ costs_history' = << >>
  /\ i' = 0
  /\ sa_result' = None

\* Lines 95-109.  An empty starting route raises IndexError in the first
\* total_route_cost.
simulated_annealing(seed, initial_temp, cr, mi) ==
  /\ phase = "ready"
  /\ pc = "idle"
  /\ initial_route' = seed
  /\ cooling_rate' = cr
  /\ max_iter' = mi
  /\ start_temp' = initial_temp
  /\ \E route \in StartRoutes(seed, num_targets) :
       /\ start_route' = route
       /\ IF route = << >>
            THEN Raise(IndexError)
            ELSE /\ error' = "None"
                 /\ pc' = "loop"
                 /\ current_route' = route
                 /\ current_cost' = total_route_cost(dist_matrix, route)
                 /\ best_route' = route
                 /\ best_cost' = total_route_cost(dist_matrix, route)
                 /\ temp' = initial_temp
                 /\ costs_history' = << >>
                 /\ i' = 0
                 /\ sa_result' = None
  /\ UNCHANGED objvars

\* One pass of the body of for i in range(max_iter), lines 111-135.
\* random.sample(range(len(new_route)), 2) raises ValueError on a route
\* shorter than 2.
annealing_iteration ==
  /\ pc = "loop"
  /\ ~LoopExits(i, max_iter, temp)
  /\ UNCHANGED objvars
  /\ IF Len(current_route) < 2
       THEN /\ Raise(SampleError)
            /\ UNCHANGED << initial_route, cooling_rate, max_iter,
                            start_route, start_temp >>
       ELSE \E idx1, idx2 \in 1 .. Len(current_route) :
              /\ idx1 # idx2
              /\ LET new_route == Swap(current_route, idx1, idx2)
                     new_cost == total_route_cost(dist_matrix, new_route)
                 IN  \E accept \in AcceptChoices(current_cost, new_cost, temp) :
                       LET cost2 == IF accept THEN new_cost ELSE current_cost
                           better == accept /\ ImprovesBest(new_cost, best_cost)
                           bcost2 == IF better THEN new_cost ELSE best_cost
                       IN  /\ current_route' =
                                IF accept THEN new_route ELSE current_route
                           /\ current_cost' = cost2
                           /\ best_route' =
                                IF better THEN new_route ELSE best_route
                           /\ best_cost' = bcost2
                           /\ costs_history' =
                                Recorded(costs_history, cost2, bcost2)
              /\ initial_route' = CallersList(initial_route, current_route')
              /\ temp' = Cooled(temp, cooling_rate)
              /\ i' = i + 1
              /\ pc' = "loop"
              /\ UNCHANGED << cooling_rate, max_iter, start_route, start_temp,
                              sa_result, error >>

\* Lines 137-138, once the loop is left: the locals die with the call.
annealing_return ==
  /\ pc = "loop"
  /\ LoopExits(i, max_iter, temp)
  /\ pc' = "returned"
  /\ sa_result' = Some(Returned(best_route, best_cost, costs_history))
  /\ current_route' = << >>
  /\ current_cost' = ZeroCost
  /\ best_route' = << >>
  /\ best_cost' = ZeroCost
  /\ temp' = <<1, 1>>
  /\ costs_history' = << >>
  /\ i' = 0
  /\ UNCHANGED << objvars, error, initial_route, cooling_rate, max_iter,
                  start_route, start_temp >>

\* The parts of the tuple a returned call left.
ResultRoute == Get(sa_result)[1]
ResultCost == Get(sa_result)[2]
ResultHistory == Get(sa_result)[3]

\* Nothing of a call is left.
Forgotten ==
  /\ initial_route' = None
  /\ cooling_rate' = <<1, 1>>
  /\ max_iter' = 0
  /\ current_route' = << >>
  /\ current_cost' = ZeroCost
  /\ best_route' = << >>
  /\ best_cost' = ZeroCost
  /\ temp' = <<1, 1>>
  /\ costs_history' = << >>
  /\ i' = 0
  /\ start_route' = << >>
  /\ start_temp' = <<1, 1>>
  /\ sa_result' = None

\* The call sites destructure the result into this many names: 3 in the
\* dashboard (route, cost, hist = opt.simulated_annealing(...)), 4 in the
\* script (best_route, cost, history, t_static = ...).  More values than
\* names raises ValueError.
UnpackWidths == { 3, 4 }

destructure(width) ==
  /\ pc = "returned"
  /\ IF Len(Get(sa_result)) = width
       THEN pc' = "idle" /\ error' = "None"
       ELSE pc' = "raised" /\ error' = UnpackError
  /\ Forgotten
  /\ UNCHANGED objvars

\* The caller reports the exception (the script's except clause, the
\* dashboard's error box) and the optimizer object lives on.
exception_reported ==
  /\ pc = "raised"
  /\ pc' = "idle"
  /\ error' = "None"
  /\ Forgotten
  /\ UNCHANGED objvars

Next ==
  \/ precalculate_distances /\ UNCHANGED callervars
  \/ add_dynamic_order /\ UNCHANGED callervars
  \/ \E seed \in Seeds(num_targets), initial_temp \in InitialTemps,
        cr \in CoolingRates, mi \in 0 .. MaxIter :
       simulated_annealing(seed, initial_temp, cr, mi) /\ UNCHANGED callervars
  \/ annealing_iteration /\ UNCHANGED callervars
  \/ annealing_return /\ UNCHANGED callervars
  \/ \E width \in UnpackWidths : destructure(width) /\ UNCHANGED callervars
  \/ exception_reported /\ UNCHANGED callervars

Spec == Init /\ [][Next]_vars

\* ------------------------------------------------------------ the callers
\* The dashboard (src/app.py) reruns its script on every button click: one
\* handler runs from start to end per event, in any order of events, over
\* st.session_state.  The script's main block makes the same three steps
\* once, in order.  The object variables (G .. dist_matrix) are the
\* optimizer the running handler calls opt; between events that is the
\* stored one.  stage is "wait" between two events of the dashboard and
\* "start", "loaded", "optimized", "done" along the script; inside a
\* handler it is "loading" (constructed, matrix not built), "optimizing"
\* (cold search), "added" (add_dynamic_order returned) or "adding" (hot
\* search).

\* The state with no optimizer object.
NoObject ==
  /\ G = 0
  /\ depot = 0
  /\ orders = << >>
  /\ targets = << >>
  /\ num_targets = 0
  /\ dist_matrix = Zeros(0)
  /\ phase = "none"
  /\ new_idx = None

FlowInit ==
  /\ caller \in { "app", "main" }
  /\ stage = (IF caller = "app" THEN "wait" ELSE "start")
  /\ NoSession
  /\ NoObject
  /\ NoCall
  /\ error = "None"

\* The fields of the optimizer object.
Object ==
  [G |-> G, depot |-> depot, orders |-> orders, targets |-> targets,
   num_targets |-> num_targets, dist_matrix |-> dist_matrix, phase |-> phase]

\* The stage after a handler ran to its end, and after an exception ended
\* it (st.error or Streamlit's exception box; the script's except clause).
AfterHandler(c, st) ==
  IF c = "app" THEN "wait"
  ELSE IF st = "loading" THEN "loaded"
  ELSE IF st = "optimizing" THEN "optimized"
  ELSE "done"
AfterError(c) == IF c = "app" THEN "wait" ELSE "done"

\* num_orders asked for: the slider of the dashboard (one count the node
\* pool can serve, one it cannot), num_orders=10 in the script.
OrdersAsked(c) == IF c = "app" THEN { FlowOrders, NumNodes } ELSE { FlowOrders }

\* The graph of the place both callers load ("Korabelnyi District, Kherson,
\* Ukraine", the dashboard's default): one graph, cut down by the
\* constructor to its largest strongly connected component, which is
\* graph 0.
PlaceGraph == 0

\* Mutant: the optimizer stored before its matrix is built.
VisibleWhileLoading_Early(c, stored, obj) == Some(obj)

\* What other code can reach once the constructor returned: the script
\* binds its variable optimizer at once; the dashboard holds the object in
\* the local opt and st.session_state.optimizer is still the previous one.
VisibleWhileLoading(c, stored, obj) == IF c = "main" THEN Some(obj) ELSE stored

\* "1. Load Map", app.py lines 38-42; line 238 of the script.  The graph
\* download or the constructor's test of the node count may raise.
load_event ==
  /\ << caller, stage >> \in { << "app", "wait" >>, << "main", "start" >> }
  /\ event' = "load"
  /\ \E fetched \in BOOLEAN, num_orders \in OrdersAsked(caller) :
       IF ~fetched \/ NumNodes < num_orders + 1
         THEN /\ stage' = AfterError(caller)
              /\ UNCHANGED << objvars, savars, error, caller, ss_optimizer,
                              ss_route, ss_cost, ss_history >>
         ELSE /\ \E d \in nodes :
                   \E ords \in InjectiveSeqs(nodes \ {d}) :
                     /\ Len(ords) = num_orders
                     /\ G' = PlaceGraph
                     /\ depot' = d
                     /\ orders' = ords
                     /\ targets' = << d >> \o ords
                     /\ num_targets' = Len(ords) + 1
                     /\ dist_matrix' = Zeros(Len(ords) + 1)
                     /\ phase' = "constructed"
                     /\ new_idx' = None
              /\ stage' = "loading"
              /\ ss_optimizer' = VisibleWhileLoading(caller, ss_optimizer, Object')
              /\ UNCHANGED << savars, error, caller, ss_route, ss_cost,
                              ss_history >>

\* app.py lines 43-51; line 240 of the script.
load_finish ==
  /\ stage = "loading"
  /\ precalculate_distances
  /\ stage' = AfterHandler(caller, stage)
  /\ ss_optimizer' = Some(Object')
  /\ ss_route' = None
  /\ ss_cost' = None
  /\ ss_history' = None
  /\ UNCHANGED << caller, event >>

\* The schedule of the cold start (the defaults 1000, 0.995, 5000) and of
\* the hot start (initial_temp=200, a lower temperature), scaled.
ColdTemp == <<2, 1>>
HotTemp == <<1, 1>>
DefaultRate == <<1, 2>>

\* "2. Optimize Route", app.py lines 56-62 and 69-70; line 243.
optimize_event ==
  /\ << caller, stage >> \in { << "app", "wait" >>, << "main", "loaded" >> }
  /\ event' = "optimize"
  /\ IF ss_optimizer = None
       THEN UNCHANGED << objvars, savars, error, caller, stage, ss_optimizer,
                         ss_route, ss_cost, ss_history >>
       ELSE /\ simulated_annealing(None, ColdTemp, DefaultRate, MaxIter)
            /\ stage' = "optimizing"
            /\ UNCHANGED << caller, ss_optimizer, ss_route, ss_cost,
                            ss_history >>

\* The names the call sites destructure the result into.
NamesUnpacked(c) == IF c = "app" THEN 3 ELSE 4

\* The history kept after a search: the dashboard stores hist after the
\* cold start and extends its history by hist after the hot start; the
\* script keeps history of the cold start and drops that of the hot start.
HistoryKept(c, st, kept, hist) ==
  IF st = "optimizing" THEN Some(hist)
  ELSE IF c = "app" THEN Some(Get(kept) \o hist)
  ELSE kept

\* app.py lines 62-67 and 83-92; lines 243 and 271: the result is
\* destructured and stored, or the destructuring raises.
result_event ==
  /\ stage \in { "optimizing", "adding" }
  /\ pc = "returned"
  /\ destructure(NamesUnpacked(caller))
  /\ IF Len(Get(sa_result)) = NamesUnpacked(caller)
       THEN /\ ss_route' = Some(ResultRoute)
            /\ ss_cost' = Some(ResultCost)
            /\ ss_history' = HistoryKept(caller, stage, ss_history, ResultHistory)
            /\ stage' = AfterHandler(caller, stage)
       ELSE UNCHANGED << stage, ss_route, ss_cost, ss_history >>
  /\ UNCHANGED << caller, event, ss_optimizer >>

\* An exception ends the handler; what was stored stays.
error_event ==
  /\ stage \in { "optimizing", "added", "adding" }
  /\ exception_reported
  /\ stage' = AfterError(caller)
  /\ UNCHANGED << caller, event, ss_optimizer, ss_route, ss_cost, ss_history >>

\* Python's truth value of an optional index (None and 0 are false) and of
\* an optional list (None and [] are false).
TruthyIndex(x) == x # None /\ Get(x) # 0
TruthyList(x) == x # None /\ Get(x) # << >>

\* "3. Add Order", app.py lines 73-77; line 265.  The stored optimizer is
\* the object the handler extends.
add_event ==
  /\ << caller, stage >> \in { << "app", "wait" >>, << "main", "optimized" >> }
  /\ event' = "add"
  /\ IF caller = "app" /\ ~(ss_optimizer # None /\ TruthyList(ss_route))
       THEN UNCHANGED << objvars, savars, error, caller, stage, ss_optimizer,
                         ss_route, ss_cost, ss_history >>
       ELSE /\ add_dynamic_order
            /\ stage' = "added"
            /\ ss_optimizer' = Some(Object')
            /\ UNCHANGED << caller, ss_route, ss_cost, ss_history >>

\* Mutant: the previous route passed on as it is.
HotSeed_Bare(route, idx) == route

\* st.session_state.route + [new_idx], best_route + [new_idx]
HotSeed(route, idx) == Append(route, idx)

\* app.py lines 79-87; lines 267-275: if new_idx, the hot start.
hot_start ==
  /\ stage = "added"
  /\ pc = "idle"
  /\ IF TruthyIndex(new_idx)
       THEN /\ simulated_annealing(Some(HotSeed(Get(ss_route), Get(new_idx))),
                                   HotTemp, DefaultRate, MaxIter)
            /\ stage' = "adding"
       ELSE /\ stage' = AfterHandler(caller, "adding")
            /\ UNCHANGED << objvars, savars, error >>
  /\ UNCHANGED << caller, event, ss_optimizer, ss_route, ss_cost, ss_history >>

FlowNext ==
  \/ load_event
  \/ load_finish
  \/ optimize_event
  \/ annealing_iteration /\ UNCHANGED callervars
  \/ annealing_return /\ UNCHANGED callervars
  \/ result_event
  \/ error_event
  \/ add_event
  \/ hot_start

FlowSpec == FlowInit /\ [][FlowNext]_vars

\* ============================================================== claims
\* A call of simulated_annealing was made and its arguments are on record:
\* it is running, has returned, or has raised.
InOptimizer ==
  pc = "loop" \/ pc = "returned" \/ (pc = "raised" /\ error # UnpackError)

\* a <= b
CostLeq(a, b) == a = b \/ CostLess(a, b)

\* The cost of the route the search started from.
StartCost == total_route_cost(dist_matrix, start_route)

\* r holds each order index 1 .. n - 1 exactly once and nothing else.
IsRoute(r, n) ==
  /\ Len(r) = n - 1
  /\ \A p \in DOMAIN r : r[p] # 0
  /\ \A k \in 1 .. n - 1 : Cardinality({ p \in DOMAIN r : r[p] = k }) = 1

\* Each entry of h is <= the one before it.
NonIncreasing(h) == \A k \in 1 .. Len(h) - 1 : CostLeq(h[k + 1], h[k])

\* Every node of the pool is a target.
PoolExhausted == \A n \in nodes : \E k \in DOMAIN targets : targets[k] = n

\* C1: with only the depot in the target set, a cold-start call of
\* simulated_annealing raises nothing and returns the empty route with
\* cost 0.
C1_ColdStartDepotOnly ==
  (InOptimizer /\ num_targets = 1 /\ initial_route = None) =>
    /\ error = "None"
    /\ pc = "returned" => (ResultRoute = << >> /\ ResultCost = ZeroCost)

\* C2: on a route of exactly one order the optimizer raises nothing, makes
\* no pass of the loop (no swap is attempted) and returns that route with
\* its cost.
C2_SingleOrderRoute ==
  (InOptimizer /\ Len(start_route) = 1) =>
    /\ error = "None"
    /\ pc = "loop" => i = 0
    /\ pc = "returned" =>
         (ResultRoute = start_route /\ ResultCost = StartCost
            /\ ResultHistory = << >>)

\* C3: after add_dynamic_order returned an index, each new entry was
\* decided on its own: where the graph has no path in exactly one direction
\* between an existing target k and the new one, that entry is the sentinel
\* and the entry of the other direction is the path length times 1.2.
C3_NewEntriesIndependent ==
  (new_idx # None) =>
    LET new == Get(new_idx)
        to(k) == NoPath(G, Target(targets, k), Target(targets, new))
        from(k) == NoPath(G, Target(targets, new), Target(targets, k))
        len(a, b) ==
          Times(shortest_path_length(G, Target(targets, a),
                                     Target(targets, b)), DynamicFactor)
    IN  \A k \in 0 .. new - 1 :
          /\ (to(k) /\ ~from(k)) =>
               (dist_matrix[k][new] = Unreachable
                  /\ dist_matrix[new][k] = len(new, k))
          /\ (from(k) /\ ~to(k)) =>
               (dist_matrix[new][k] = Unreachable
                  /\ dist_matrix[k][new] = len(k, new))

\* C4: a pass of the loop starts only with temp >= 1 and fewer than
\* max_iter passes made; a call with initial_temp < 1 makes no pass: it
\* returns the starting route, its cost and an empty history.  (Stated of
\* the routes of two orders or more, on which a pass can be made.)
C4_IterationNeedsTemperature ==
  (Len(start_route) >= 2) =>
    /\ (pc = "loop" /\ ~LoopExits(i, max_iter, temp)) =>
         (~BelowOne(temp) /\ i < max_iter)
    /\ (pc = "returned" /\ BelowOne(start_temp)) =>
         (ResultHistory = << >> /\ ResultRoute = start_route
            /\ ResultCost = StartCost)

\* C5: the result of simulated_annealing has exactly three parts, and the
\* dashboard's destructuring of it into (route, cost, hist) raises nothing.
C5_ThreeOutputs ==
  /\ pc = "returned" => Len(Get(sa_result)) = 3
  /\ error # UnpackError

\* C6: a step that extends the target set leaves every entry of the old
\* N x N block of the matrix as it was; the matrix becomes (N+1) x (N+1).
C6_ExtensionKeepsBlock ==
  [][targets' # targets =>
       /\ DOMAIN dist_matrix' = 0 .. num_targets
       /\ \A a \in 0 .. num_targets : DOMAIN dist_matrix'[a] = 0 .. num_targets
       /\ \A a, b \in 0 .. num_targets - 1 :
            dist_matrix'[a][b] = dist_matrix[a][b]]_vars

\* An extension was made on top of an earlier one, over a block that
\* precalculate_distances filled with entries that differ by direction.
C6_Witness ==
  /\ new_idx = Some(num_targets - 1)
  /\ num_targets = Len(targets)
  /\ num_targets >= 4
  /\ \E a, b \in 0 .. num_targets - 2 :
       /\ a # b
       /\ dist_matrix[a][b] # 0
       /\ dist_matrix[a][b] # dist_matrix[b][a]

\* C7: on a starting route of at least two orders, the best cost, during
\* the search and as returned, is <= the cost of the starting route.
C7_BestNeverWorse ==
  (Len(start_route) >= 2) =>
    /\ pc = "loop" => CostLeq(best_cost, StartCost)
    /\ pc = "returned" => CostLeq(ResultCost, StartCost)

\* A hot start on a seed that ends with the index add_dynamic_order just
\* returned came back, after two passes, with a strictly better route.
C7_Witness ==
  /\ pc = "returned"
  /\ initial_route # None
  /\ new_idx # None
  /\ Len(start_route) = num_targets - 1
  /\ Len(start_route) >= 3
  /\ start_route[Len(start_route)] = Get(new_idx)
  /\ Len(ResultHistory) = 2
  /\ CostLess(ResultCost, StartCost)

\* C8: the history is non-increasing and its last entry is the best cost
\* so far, during the search and as returned.
C8_HistoryMonotone ==
  /\ pc = "loop" =>
       /\ NonIncreasing(costs_history)
       /\ costs_history # << >> =>
            costs_history[Len(costs_history)] = best_cost
  /\ pc = "returned" =>
       /\ NonIncreasing(ResultHistory)
       /\ ResultHistory # << >> =>
            ResultHistory[Len(ResultHistory)] = ResultCost

\* Two passes were made: the first improved on the starting cost, the
\* second accepted a worsening move, so the current cost is above the best
\* cost, which is what the history holds.
C8_Witness ==
  /\ pc = "loop"
  /\ Len(costs_history) = 2
  /\ CostLess(costs_history[1], StartCost)
  /\ CostLess(best_cost, current_cost)
  /\ costs_history[2] # current_cost

\* C9: a returned route holds each order index 1 .. N-1 exactly once and
\* never 0, on a cold start and on a hot start whose seed does; the routes
\* of the search in progress do too.
C9_RouteIsPermutation ==
  (initial_route # None => IsRoute(Get(initial_route), num_targets)) =>
    /\ pc = "loop" =>
         (IsRoute(current_route, num_targets)
            /\ IsRoute(best_route, num_targets))
    /\ pc = "returned" => IsRoute(ResultRoute, num_targets)

\* A cold start over three orders returned a route other than the one it
\* started from.
C9_Witness ==
  /\ pc = "returned"
  /\ initial_route = None
  /\ num_targets >= 4
  /\ ResultRoute # start_route

\* C10: with every node of the pool in the target set, add_dynamic_order
\* (the only step from idle to idle once the matrix is built) returns None
\* and leaves targets, orders, num_targets and the matrix as they were.
C10_ExhaustedPool ==
  [][(PoolExhausted /\ phase = "ready" /\ pc = "idle" /\ pc' = "idle") =>
       /\ new_idx' = None
       /\ UNCHANGED << targets, orders, num_targets, dist_matrix >>]_vars

\* add_dynamic_order was called on an exhausted pool: the pool is used up,
\* which took calls that returned an index, and the last call returned None.
C10_Witness ==
  /\ PoolExhausted
  /\ phase = "ready"
  /\ num_targets = NumNodes
  /\ new_idx = None

\* The list, the counter and both dimensions of the matrix agree.
SizesAgree ==
  /\ Len(targets) = num_targets
  /\ DOMAIN dist_matrix = 0 .. num_targets - 1
  /\ \A a \in DOMAIN dist_matrix : DOMAIN dist_matrix[a] = 0 .. num_targets - 1

\* C11: in every state len(targets), num_targets and the number of rows and
\* of columns of the matrix are equal; a step that adds a target (a
\* successful add_dynamic_order) raises each of them by exactly one and
\* returns the previous number of targets as the new index, which is >= 1.
C11_SizesInStep ==
  /\ []SizesAgree
  /\ [][targets' # targets =>
          /\ Len(targets') = Len(targets) + 1
          /\ num_targets' = num_targets + 1
          /\ DOMAIN dist_matrix' = 0 .. num_targets
          /\ \A a \in 0 .. num_targets :
               DOMAIN dist_matrix'[a] = 0 .. num_targets
          /\ new_idx' = Some(num_targets)
          /\ Get(new_idx') >= 1]_vars

\* A second order was added to an optimizer built with one order: the call
\* returned 2, the number of targets before it.
C11_Witness ==
  /\ Len(orders) = 2
  /\ num_targets = 3
  /\ new_idx = Some(2)
  /\ phase = "ready"

\* No node occurs twice in tg.
DuplicateFree(tg) ==
  \A p, q \in DOMAIN tg : tg[p] = tg[q] => p = q

\* C12: the target list never holds a node twice and its index 0 is the
\* depot in every state; a step changes the list only by appending at the
\* end, so the location at index k stays at index k.
C12_TargetsAppendOnly ==
  /\ [](DuplicateFree(targets) /\ Target(targets, 0) = depot)
  /\ [][/\ Len(targets') >= Len(targets)
        /\ \A k \in 0 .. Len(targets) - 1 :
             Target(targets', k) = Target(targets, k)]_vars

\* Two orders were added one after the other to an optimizer of one order:
\* four distinct locations, the depot first and the initial order second.
C12_Witness ==
  /\ Len(targets) = 4
  /\ Len(orders) = 3
  /\ new_idx = Some(3)
  /\ targets[1] = depot
  /\ targets[2] = orders[1]

\* The temperature after k coolings of t.
RECURSIVE TempAfter(_, _, _)
TempAfter(t, cr, k) == IF k = 0 THEN t ELSE Cooled(TempAfter(t, cr, k - 1), cr)

\* After n passes the cap is reached, or a pass was made and the
\* temperature it left is below 1.
StopsAfter(n, t, cr, mi) ==
  n = mi \/ (n >= 1 /\ BelowOne(TempAfter(t, cr, n)))

\* The number of passes the schedule alone prescribes: the first count at
\* which the loop stops.
PassesDue(t, cr, mi) ==
  CHOOSE n \in 0 .. mi :
    StopsAfter(n, t, cr, mi) /\ \A k \in 0 .. n - 1 : ~StopsAfter(k, t, cr, mi)

\* C13: on a route of two orders or more (the cooling rates of the model
\* are in (0, 1)) every call returns: a running call always has its next
\* step, each pass raises the pass count by one and the count never exceeds
\* max_iter.  The history holds one sample for each pass completed; the
\* call stops at the first pass after which max_iter passes are made or
\* the temperature is below 1, so the length of the returned history is
\* fixed by initial_temp, cooling_rate and max_iter alone, whatever the
\* targets and the matrix.
C13_Terminates ==
  /\ [](Len(start_route) >= 2 =>
          /\ pc = "loop" =>
               /\ ENABLED annealing_iteration \/ ENABLED annealing_return
               /\ error = "None"
               /\ Len(costs_history) = i
               /\ i <= max_iter
               /\ i <= PassesDue(start_temp, cooling_rate, max_iter)
          /\ pc = "returned" =>
               /\ Len(ResultHistory) <= max_iter
               /\ Len(ResultHistory) =
                    PassesDue(start_temp, cooling_rate, max_iter))
  /\ [][(pc = "loop" /\ Len(start_route) >= 2) =>
          \/ pc' = "loop" /\ i' = i + 1
          \/ pc' = "returned" /\ Len(ResultHistory') = i]_vars

\* A call that started at temperature 1 or above with max_iter = 2
\* returned after one pass: the temperature fell below 1 before the cap.
C13_Witness ==
  /\ pc = "returned"
  /\ Len(start_route) >= 2
  /\ ~BelowOne(start_temp)
  /\ max_iter = 2
  /\ Len(ResultHistory) = 1

\* The legs of the closed tour of a route, in travel order: depot to the
\* first order, each order to the next, the last order to the depot.
TourLegs(route) ==
  [k \in 1 .. Len(route) + 1 |->
    << IF k = 1 THEN 0 ELSE route[k - 1],
       IF k = Len(route) + 1 THEN 0 ELSE route[k] >>]

\* The sum of the entries M[from][to] of the first k legs that are not the
\* sentinel.
RECURSIVE MetresOf(_, _, _)
MetresOf(M, legs, k) ==
  IF k = 0 THEN 0
  ELSE MetresOf(M, legs, k - 1)
         + (IF M[legs[k][1]][legs[k][2]] = Unreachable
              THEN 0 ELSE M[legs[k][1]][legs[k][2]])

\* M[0][r[0]] + sum of M[r[i]][r[i+1]] + M[r[last]][0], written as the
\* number of sentinel legs and the metres of the others.
ClosedTour(M, route) ==
  LET legs == TourLegs(route)
  IN  [hi |-> Cardinality({ k \in DOMAIN legs :
                             M[legs[k][1]][legs[k][2]] = Unreachable }),
       lo |-> MetresOf(M, legs, Len(legs))]

\* C15: total_route_cost of every non-empty route over the order indices is
\* the sum of the directed matrix entries along the closed tour, in travel
\* order; the cost the optimizer holds for its current route, the starting
\* one or a proposal it accepted, is that sum too.
C15_ClosedTourCost ==
  /\ (phase = "ready" /\ pc = "idle") =>
       \A r \in InjectiveSeqs(1 .. num_targets - 1) \ { << >> } :
         total_route_cost(dist_matrix, r) = ClosedTour(dist_matrix, r)
  /\ pc = "loop" => current_cost = ClosedTour(dist_matrix, current_route)
  /\ pc = "returned" => ResultCost = ClosedTour(dist_matrix, ResultRoute)

\* The optimizer accepted a proposal over three orders whose tour runs over
\* a sentinel leg and over a leg whose two directions differ.
C15_Witness ==
  /\ pc = "loop"
  /\ i >= 1
  /\ Len(current_route) >= 3
  /\ current_route # start_route
  /\ current_cost.hi >= 1
  /\ current_cost.lo > 0
  /\ dist_matrix[current_route[1]][current_route[2]]
       # dist_matrix[current_route[2]][current_route[1]]

\* C16: precalculate_distances lets no exception out; when it has returned,
\* each off-diagonal entry is the sentinel where the graph has no path from
\* the row's target to the column's, and otherwise lies between the path
\* length and 1.2 times the path length; the diagonal is 0.
C16_BulkBuild ==
  [][(phase = "constructed" /\ phase' = "ready") =>
       /\ error' = "None"
       /\ pc' = "idle"
       /\ \A a, b \in 0 .. num_targets - 1 :
            LET u == Target(targets, a)
                v == Target(targets, b)
                e == dist_matrix'[a][b]
            IN  IF a = b THEN e = 0
                ELSE IF NoPath(G, u, v) THEN e = Unreachable
                ELSE /\ shortest_path_length(G, u, v) <= e
                     /\ 5 * e <= 6 * shortest_path_length(G, u, v)]_vars

\* The matrix of a depot and one order was built on a graph with a path
\* from the order to the depot and none back: one entry is the sentinel,
\* the other is 1.2 times the path length.
C16_Witness ==
  /\ phase = "ready"
  /\ num_targets = 2
  /\ NoPath(G, targets[1], targets[2])
  /\ ~NoPath(G, targets[2], targets[1])
  /\ dist_matrix[0][1] = Unreachable
  /\ 5 * dist_matrix[1][0] = 6 * shortest_path_length(G, targets[2], targets[1])
  /\ dist_matrix[0][0] = 0
  /\ dist_matrix[1][1] = 0

\* C19: at every boundary between passes the current cost is
\* total_route_cost of the current route, the best cost is total_route_cost
\* of the best route, and the best cost is <= the current cost; the cost
\* returned is total_route_cost of the route returned and, when the history
\* is not empty, its last entry.
C19_CostsTrackRoutes ==
  /\ pc = "loop" =>
       /\ current_cost = total_route_cost(dist_matrix, current_route)
       /\ best_cost = total_route_cost(dist_matrix, best_route)
       /\ CostLeq(best_cost, current_cost)
  /\ pc = "returned" =>
       /\ ResultCost = total_route_cost(dist_matrix, ResultRoute)
       /\ ResultHistory # << >> =>
            ResultCost = ResultHistory[Len(ResultHistory)]

\* After two passes the search holds three different routes: the one it
\* started from, a better one it found, and a worse one it moved on to.
C19_Witness ==
  /\ pc = "loop"
  /\ i = 2
  /\ best_route # start_route
  /\ current_route # best_route
  /\ CostLess(best_cost, current_cost)
  /\ CostLess(best_cost, StartCost)

\* C20: no step of a call of simulated_annealing, from its entry to the
\* destructuring of its result, changes the matrix, the targets, the orders
\* or num_targets; the caller's initial_route is what it was as long as the
\* call runs; and every call enters its loop at its own initial_temp, with
\* an empty history and no pass counted.
C20_CallLeavesObject ==
  [][/\ (pc # "idle" \/ pc' # "idle") =>
          UNCHANGED << G, depot, targets, orders, num_targets, dist_matrix >>
     /\ pc = "loop" => initial_route' = initial_route
     /\ (pc = "idle" /\ pc' # "idle") =>
          (initial_route' # None => start_route' = Get(initial_route'))
     /\ (pc = "idle" /\ pc' = "loop") =>
          /\ temp' = start_temp'
          /\ costs_history' = << >>
          /\ i' = 0]_vars

\* A hot start returned, after two passes, a route other than the list the
\* caller passed, which the caller still holds as passed.
C20_Witness ==
  /\ pc = "returned"
  /\ initial_route # None
  /\ Get(initial_route) = start_route
  /\ Len(ResultHistory) = 2
  /\ ResultRoute # Get(initial_route)

\* The caller is between two events: no handler is running.
BetweenEvents == stage \in { "wait", "start", "loaded", "optimized", "done" }

C18_LoadIsAtomic ==
  /\ [](caller = "app" =>
          /\ ss_optimizer # None => Get(ss_optimizer).phase = "ready"
          /\ ((event \in { "optimize", "add" } /\ ~BetweenEvents) \/ pc # "idle") =>
               (phase = "ready" /\ ss_optimizer = Some(Object)))
  /\ [][(caller = "app" /\ stage' = "loading") =>
          UNCHANGED << ss_optimizer, ss_route, ss_cost, ss_history >>]_vars
  /\ [][(caller = "app" /\ stage = "wait" /\ event' = "load"
            /\ stage' = "wait") =>
          UNCHANGED << ss_optimizer, ss_route, ss_cost, ss_history, objvars >>]_vars

\* A second load is under way in the dashboard: the new optimizer is
\* constructed, its matrix is not built, and the session still holds the
\* optimizer of the first load, a different one with its matrix built.
C18_Witness ==
  /\ caller = "app"
  /\ stage = "loading"
  /\ phase = "constructed"
  /\ ss_optimizer # None
  /\ Get(ss_optimizer).phase = "ready"
  /\ Get(ss_optimizer).targets # targets

=============================================================================
